---- MODULE Spec2Model ----
(***************************************************************************)
(* Model of the two Unmanic plugins encoder_audio_custom and               *)
(* remove_stream_by_language: their per-stream predicates, their argument  *)
(* builders and their two runner hooks (on_library_management_file_test    *)
(* and on_worker_process).                                                 *)
(*                                                                         *)
(* Python strings are sequences of one-character strings, so that lower(), *)
(* split(), strip(), the substring test `a in b`, int() and str.format()   *)
(* are computed and not assumed.  A dict is a function; a key that is      *)
(* absent from a dict is absent from the function's domain.                *)
(***************************************************************************)
EXTENDS Integers, Sequences, FiniteSets, TLC

VARIABLES plugin, settings, input, test_data, test_result, worker_data, worker_result

vars == <<plugin, settings, input, test_data, test_result, worker_data, worker_result>>

\* Largest number of streams in a probed file.
MaxStreams == 2

\* 64 kbit/s per channel (encoder_audio_custom, calculate_bitrate).
BitratePerChannel == 64

----------------------------------------------------------------------------
(* Python string primitives *)

UpperCaseLetters ==
    <<"A","B","C","D","E","F","G","H","I","J","K","L","M",
      "N","O","P","Q","R","S","T","U","V","W","X","Y","Z">>

LowerCaseLetters ==
    <<"a","b","c","d","e","f","g","h","i","j","k","l","m",
      "n","o","p","q","r","s","t","u","v","w","x","y","z">>

Digits == <<"0","1","2","3","4","5","6","7","8","9">>

lower_char(c) ==
    IF \E i \in 1..26 : UpperCaseLetters[i] = c
    THEN LowerCaseLetters[CHOOSE i \in 1..26 : UpperCaseLetters[i] = c]
    ELSE c

\* str.lower()
lower(s) == IF s = <<>> THEN <<>> ELSE [i \in 1..Len(s) |-> lower_char(s[i])]

\* `sub in s` for two strings
contains(sub, s) ==
    \E i \in 0..(Len(s) - Len(sub)) : SubSeq(s, i + 1, i + Len(sub)) = sub

RECURSIVE split(_, _)
\* str.split(sep) for a one-character separator
split(s, sep) ==
    IF \E i \in 1..Len(s) : s[i] = sep
    THEN LET i == CHOOSE j \in 1..Len(s) :
                      s[j] = sep /\ \A h \in 1..(j - 1) : s[h] # sep
         IN  <<SubSeq(s, 1, i - 1)>> \o split(SubSeq(s, i + 1, Len(s)), sep)
    ELSE <<s>>

\* list(filter(None, xs)): drops the empty strings
filter_none(xs) == SelectSeq(xs, LAMBDA x : x # <<>>)

RECURSIVE lstrip(_)
lstrip(s) == IF s # <<>> /\ Head(s) = " " THEN lstrip(Tail(s)) ELSE s

RECURSIVE rstrip(_)
rstrip(s) ==
    IF s # <<>> /\ s[Len(s)] = " " THEN rstrip(SubSeq(s, 1, Len(s) - 1)) ELSE s

\* str.strip()
strip(s) == rstrip(lstrip(s))

\* str.split() with no separator: the words between runs of blanks
split_whitespace(s) == filter_none(split(s, " "))

digit_value(c) == (CHOOSE i \in 1..10 : Digits[i] = c) - 1

is_digit(c) == \E i \in 1..10 : Digits[i] = c

RECURSIVE digits_value(_)
digits_value(s) ==
    IF s = <<>> THEN 0
    ELSE 10 * digits_value(SubSeq(s, 1, Len(s) - 1)) + digit_value(s[Len(s)])

RECURSIVE int_to_str(_)
\* '{}'.format(n) for an integer n >= 0
int_to_str(n) ==
    IF n < 10 THEN <<Digits[n + 1]>>
    ELSE int_to_str(n \div 10) \o <<Digits[(n % 10) + 1]>>

\* A Python value of a setting: an int or a str.
PyInt(n) == [t |-> "int", n |-> n]

PyStr(s) == [t |-> "str", s |-> s]

\* bool(v)
truthy(v) == IF v.t = "int" THEN v.n # 0 ELSE v.s # <<>>

\* int(v) succeeds: an int, or a string of decimal digits with blanks around it
int_ok(v) ==
    \/ v.t = "int"
    \/ /\ v.t = "str"
       /\ strip(v.s) # <<>>
       /\ \A i \in 1..Len(strip(v.s)) : is_digit(strip(v.s)[i])

\* int(v), where it succeeds
int_of(v) == IF v.t = "int" THEN v.n ELSE digits_value(strip(v.s))

\* '{}'.format(v)
format(v) == IF v.t = "int" THEN int_to_str(v.n) ELSE v.s

----------------------------------------------------------------------------
(* String literals of the two plugins *)

S_title == <<"t","i","t","l","e">>

S_language == <<"l","a","n","g","u","a","g","e">>

S_map == <<"-","m","a","p">>

S_ffmpeg == <<"f","f","m","p","e","g">>

S_aformat ==
    <<"a","f","o","r","m","a","t","=","c","h","a","n","n","e","l","_",
      "l","a","y","o","u","t","s","=","'","7",".","1","|","5",".","1","|",
      "s","t","e","r","e","o","|","m","o","n","o","'">>

----------------------------------------------------------------------------
(* encoder_audio_custom: the policy *)

\* stream_info.get('channels') is None or 0
no_channels(stream_info) ==
    \/ "channels" \notin DOMAIN stream_info
    \/ stream_info.channels = 0

\* stream_info.get('channels', 0)
channels_or_zero(stream_info) ==
    IF "channels" \in DOMAIN stream_info THEN stream_info.channels ELSE 0

\* Variant: a stream without a channel count is given the bitrate of six channels.
calculate_bitrate_assume_six(stream_info) ==
    IF no_channels(stream_info)
    THEN BitratePerChannel * 6
    ELSE BitratePerChannel * stream_info.channels

calculate_bitrate(stream_info) ==
    IF no_channels(stream_info)
    THEN BitratePerChannel
    ELSE BitratePerChannel * stream_info.channels

Encoder_test_stream_needs_processing(stream_info, cfg) ==
    IF lower(stream_info.codec_name) = cfg.if_not_found THEN FALSE ELSE TRUE

\* int(bitrate) raises ValueError: reached only when `not bitrate` is false
Encoder_custom_stream_mapping_raises(cfg) ==
    truthy(cfg.bitrate) /\ ~int_ok(cfg.bitrate)

\* Variant: the stream specifier counts from one.
stream_option_one_based(name, stream_id) == name \o int_to_str(stream_id + 1)

\* '-c:a:{}'.format(stream_id) and its siblings
stream_option(name, stream_id) == name \o int_to_str(stream_id)

Encoder_custom_stream_mapping(stream_info, stream_id, cfg) ==
    LET bitrate == IF ~truthy(cfg.bitrate) \/ int_of(cfg.bitrate) = 0
                   THEN PyInt(calculate_bitrate(stream_info))
                   ELSE cfg.bitrate
        stream_encoding ==
            << stream_option(<<"-","c",":","a",":">>, stream_id),
               cfg.use_codec_lib,
               stream_option(<<"-","b",":","a",":">>, stream_id),
               format(bitrate) \o <<"k">>,
               stream_option(<<"-","a","c",":","a",":">>, stream_id),
               int_to_str(channels_or_zero(stream_info)),
               stream_option(<<"-","a","f",":","a",":">>, stream_id),
               S_aformat >>
    IN  [ stream_mapping  |-> << S_map, stream_option(<<"0",":","a",":">>, stream_id) >>,
          stream_encoding |-> IF cfg.advanced
                              THEN stream_encoding \o split_whitespace(cfg.custom_options)
                              ELSE stream_encoding ]

----------------------------------------------------------------------------
(* remove_stream_by_language: the policy *)

\* stream_tags and True in list(k.lower() in [name] for k in stream_tags)
has_tag_key(stream_info, name) ==
    /\ "tags" \in DOMAIN stream_info
    /\ \E k \in DOMAIN stream_info.tags : lower(k) = name

\* stream_tags.get(name, '')
tag_get(stream_info, name) ==
    IF name \in DOMAIN stream_info.tags THEN stream_info.tags[name] ELSE <<>>

\* The title branch: some configured phrase is in the stream's title
title_matches(stream_info, cfg) ==
    /\ has_tag_key(stream_info, S_title)
    /\ cfg.title_audio_or_sub # <<>>
    /\ LET title  == lower(tag_get(stream_info, S_title))
           titles == filter_none(split(cfg.title_audio_or_sub, ","))
       IN  \E j \in 1..Len(titles) : contains(lower(titles[j]), title)

\* The loop over the configured languages
language_matches(stream_info, language_list) ==
    /\ language_list # <<>>
    /\ LET languages == filter_none(split(language_list, ","))
       IN  \E j \in 1..Len(languages) :
               /\ strip(languages[j]) # <<>>
               /\ contains(lower(strip(languages[j])),
                           lower(tag_get(stream_info, S_language)))

test_tags_for_search_string(stream_info, audio_stream_count, cfg) ==
    IF title_matches(stream_info, cfg) THEN TRUE
    ELSE IF has_tag_key(stream_info, S_language)
    THEN IF stream_info.codec_type = "subtitle"
         THEN language_matches(stream_info, cfg.languages_subtitle)
         ELSE IF audio_stream_count <= 1 THEN FALSE
         ELSE language_matches(stream_info, cfg.languages_audio)
    ELSE FALSE

Remove_test_stream_needs_processing(stream_info, audio_stream_count, cfg) ==
    IF test_tags_for_search_string(stream_info, audio_stream_count, cfg)
    THEN TRUE ELSE FALSE

Remove_custom_stream_mapping(stream_info, stream_id) ==
    [stream_mapping |-> <<>>, stream_encoding |-> <<>>]

----------------------------------------------------------------------------
(* The stream mapper both plugins subclass *)

\* PluginStreamMapper.__init__: the stream types the mapper looks at
processing_stream_type(p) ==
    IF p = "encoder_audio_custom" THEN {"audio"} ELSE {"audio", "subtitle"}

\* The subclass's test_stream_needs_processing
predicate(p, stream_info, audio_stream_count, cfg) ==
    IF p = "encoder_audio_custom"
    THEN Encoder_test_stream_needs_processing(stream_info, cfg)
    ELSE Remove_test_stream_needs_processing(stream_info, audio_stream_count, cfg)

\* The subclass's custom_stream_mapping raises
builder_raises(p, cfg) ==
    p = "encoder_audio_custom" /\ Encoder_custom_stream_mapping_raises(cfg)

\* The subclass's custom_stream_mapping
builder(p, stream_info, stream_id, cfg) ==
    IF p = "encoder_audio_custom"
    THEN Encoder_custom_stream_mapping(stream_info, stream_id, cfg)
    ELSE Remove_custom_stream_mapping(stream_info, stream_id)

NoMapper == [evaluated |-> FALSE]

NewMapper ==
    [ evaluated        |-> TRUE,
      raised           |-> FALSE,
      needs_processing |-> FALSE,
      counts           |-> [t \in {"video", "audio", "subtitle"} |-> 0],
      verdicts         |-> <<>>,
      fragments        |-> <<>>,
      stream_mapping   |-> <<>>,
      stream_encoding  |-> <<>> ]

total_audio_streams(streams) ==
    Cardinality({i \in 1..Len(streams) : streams[i].codec_type = "audio"})

RECURSIVE evaluate(_, _, _, _, _, _)
\* One pass over the probe's streams, from stream i on.
evaluate(p, streams, cfg, counting, i, m) ==
    IF i > Len(streams) \/ m.raised THEN m
    ELSE LET s == streams[i] IN
         IF s.codec_type \notin processing_stream_type(p)
         THEN evaluate(p, streams, cfg, counting, i + 1,
                       [m EXCEPT !.verdicts = Append(@, "skipped")])
         ELSE LET stream_id == m.counts[s.codec_type]
                  audio_stream_count ==
                      IF counting = "total" THEN total_audio_streams(streams)
                      ELSE m.counts["audio"]
                  counted == [m EXCEPT !.counts[s.codec_type] = @ + 1]
              IN  IF ~predicate(p, s, audio_stream_count, cfg)
                  THEN evaluate(p, streams, cfg, counting, i + 1,
                                [counted EXCEPT !.verdicts = Append(@, "keep")])
                  ELSE IF builder_raises(p, cfg)
                  THEN [m EXCEPT !.raised = TRUE]
                  ELSE LET f == builder(p, s, stream_id, cfg) IN
                       evaluate(p, streams, cfg, counting, i + 1,
                           [counted EXCEPT
                               !.verdicts = Append(@, "process"),
                               !.needs_processing = TRUE,
                               !.fragments = Append(@,
                                   [ position |-> i, stream_id |-> stream_id,
                                     stream_mapping |-> f.stream_mapping,
                                     stream_encoding |-> f.stream_encoding ]),
                               !.stream_mapping = @ \o f.stream_mapping,
                               !.stream_encoding = @ \o f.stream_encoding])

\* StreamMapper.streams_need_processing, with the state it leaves in the mapper
streams_need_processing(p, streams, cfg, counting) ==
    evaluate(p, streams, cfg, counting, 1, NewMapper)

S_file_in == <<"i","n">>

S_file_out == <<"o","u","t">>

\* StreamMapper.get_ffmpeg_args
get_ffmpeg_args(m) ==
    << <<"-","i">>, S_file_in >> \o m.stream_mapping \o m.stream_encoding
        \o << S_file_out >>

\* Probe.file(abspath)
probe_file(file) == file.probe_ok

----------------------------------------------------------------------------
(* encoder_audio_custom: the runner hooks *)

\* Variant: the command the host passed in is left in place.
default_keeps_command(data) == [data EXCEPT !.repeat = FALSE]

\* data['exec_command'] = []; data['repeat'] = False
default_no_command(data) == [data EXCEPT !.exec_command = <<>>, !.repeat = FALSE]

\* Variant: the file test goes on to the stream mapper whatever the probe said.
Encoder_on_library_management_file_test_ignores_probe(data, file, cfg) ==
    LET m == streams_need_processing("encoder_audio_custom", file.streams, cfg, "total")
    IN  [ returns |-> IF m.raised THEN "raised" ELSE "data",
          data |-> IF m.needs_processing
                   THEN [data EXCEPT !.add_file_to_pending_tasks = TRUE] ELSE data,
          probed |-> IF probe_file(file) THEN "ok" ELSE "failed",
          assigned |-> IF m.needs_processing
                       THEN {"add_file_to_pending_tasks"} ELSE {},
          mapper |-> m ]

Encoder_on_library_management_file_test(data, file, cfg) ==
    IF ~probe_file(file)
    THEN [ returns |-> "data", data |-> data, probed |-> "failed",
           assigned |-> {}, mapper |-> NoMapper ]
    ELSE LET m == streams_need_processing("encoder_audio_custom", file.streams, cfg, "total")
         IN  IF m.raised
             THEN [ returns |-> "raised", data |-> data, probed |-> "ok",
                    assigned |-> {}, mapper |-> m ]
             ELSE IF m.needs_processing
             THEN [ returns |-> "data",
                    data |-> [data EXCEPT !.add_file_to_pending_tasks = TRUE],
                    probed |-> "ok",
                    assigned |-> {"add_file_to_pending_tasks"}, mapper |-> m ]
             ELSE [ returns |-> "data", data |-> data, probed |-> "ok",
                    assigned |-> {}, mapper |-> m ]

Encoder_on_worker_process(data, file, cfg) ==
    LET d == default_no_command(data) IN
    IF ~probe_file(file)
    THEN [ returns |-> "data", data |-> d, probed |-> "failed",
           assigned |-> {"exec_command", "repeat"}, mapper |-> NoMapper ]
    ELSE LET m == streams_need_processing("encoder_audio_custom", file.streams, cfg, "total")
         IN  IF m.raised
             THEN [ returns |-> "raised", data |-> d, probed |-> "ok",
                    assigned |-> {"exec_command", "repeat"}, mapper |-> m ]
             ELSE IF m.needs_processing
             THEN [ returns |-> "data",
                    data |-> [d EXCEPT
                                !.exec_command = <<S_ffmpeg>> \o get_ffmpeg_args(m),
                                !.command_progress_parser = "parse_progress"],
                    probed |-> "ok",
                    assigned |-> {"exec_command", "repeat", "command_progress_parser"},
                    mapper |-> m ]
             ELSE [ returns |-> "data", data |-> d, probed |-> "ok",
                    assigned |-> {"exec_command", "repeat"}, mapper |-> m ]

----------------------------------------------------------------------------
(* remove_stream_by_language: the runner hooks *)

Remove_on_library_management_file_test(data, file, cfg, counting) ==
    IF cfg.languages_subtitle = <<>> /\ cfg.languages_audio = <<>>
    THEN [ returns |-> "False", data |-> data, probed |-> "not_attempted",
           assigned |-> {}, mapper |-> NoMapper ]
    ELSE IF ~probe_file(file)
    THEN [ returns |-> "data", data |-> data, probed |-> "failed",
           assigned |-> {}, mapper |-> NoMapper ]
    ELSE LET m == streams_need_processing("remove_stream_by_language", file.streams,
                                          cfg, counting)
         IN  IF m.needs_processing
             THEN [ returns |-> "data",
                    data |-> [data EXCEPT !.add_file_to_pending_tasks = TRUE],
                    probed |-> "ok",
                    assigned |-> {"add_file_to_pending_tasks"}, mapper |-> m ]
             ELSE [ returns |-> "data", data |-> data, probed |-> "ok",
                    assigned |-> {}, mapper |-> m ]

Remove_on_worker_process(data, file, cfg, counting) ==
    LET d == default_no_command(data) IN
    IF ~probe_file(file)
    THEN [ returns |-> "data", data |-> d, probed |-> "failed",
           assigned |-> {"exec_command", "repeat"}, mapper |-> NoMapper ]
    ELSE LET m == streams_need_processing("remove_stream_by_language", file.streams,
                                          cfg, counting)
         IN  IF m.needs_processing
             THEN [ returns |-> "data",
                    data |-> [d EXCEPT
                                !.exec_command = <<S_ffmpeg>> \o get_ffmpeg_args(m),
                                !.command_progress_parser = "parse_progress"],
                    probed |-> "ok",
                    assigned |-> {"exec_command", "repeat", "command_progress_parser"},
                    mapper |-> m ]
             ELSE [ returns |-> "data", data |-> d, probed |-> "ok",
                    assigned |-> {"exec_command", "repeat"}, mapper |-> m ]

----------------------------------------------------------------------------
(* The inputs: settings, probed files, and the data records the host passes *)

S_opus == <<"o","p","u","s">>

S_aac == <<"a","a","c">>

S_libopus == <<"l","i","b","o","p","u","s">>

S_eng == <<"e","n","g">>

S_foo == <<"f","o","o">>

EncoderSettings ==
    [ advanced       : BOOLEAN,
      custom_options : { <<"-","x"," "," ","y">> },
      if_not_found   : { S_opus, <<"O","P","U","S">>, S_aac },
      use_codec_lib  : { S_libopus },
      bitrate        : { PyInt(0), PyInt(128), PyStr(<<>>), PyStr(<<"0">>),
                         PyStr(<<"9","6">>), PyStr(<<"a","b","c">>) } ]

EncoderStreams ==
    { [codec_type |-> "audio", codec_name |-> S_aac,  channels |-> 2],
      [codec_type |-> "audio", codec_name |-> S_aac,  channels |-> 6],
      [codec_type |-> "audio", codec_name |-> S_aac],
      [codec_type |-> "audio", codec_name |-> S_opus, channels |-> 6],
      [codec_type |-> "audio", codec_name |-> <<"O","p","u","s">>, channels |-> 0],
      [codec_type |-> "video", codec_name |-> <<"h","2","6","4">>] }

RemoveSettings ==
    [ languages_audio    : { <<>>, S_eng, <<"f","r","e",","," ","E","N","G">> },
      languages_subtitle : { <<>>, S_eng },
      title_audio_or_sub : { <<>>, S_foo } ]

RemoveStreams ==
    { [codec_type |-> "audio", tags |-> (S_language :> S_eng)],
      [codec_type |-> "audio", tags |-> (<<"L","A","N","G","U","A","G","E">> :> S_eng)],
      [codec_type |-> "audio",
       tags |-> (S_language :> <<"E","N","G">>) @@ (S_title :> <<"F","o","o"," ","2">>)],
      [codec_type |-> "audio",
       tags |-> (S_language :> <<"E","N","G">>)
                @@ (<<"T","i","t","l","e">> :> <<"F","o","o"," ","2">>)],
      [codec_type |-> "audio"],
      [codec_type |-> "subtitle", tags |-> (S_language :> S_eng)],
      [codec_type |-> "subtitle", tags |-> (S_title :> S_foo)],
      [codec_type |-> "video", codec_name |-> <<"h","2","6","4">>] }

\* The probe's streams: the chosen descriptors, each with its container index
with_index(c) == [i \in 1..Len(c) |-> ("index" :> (i - 1)) @@ c[i]]

Files(choices) ==
    { [probe_ok |-> FALSE, streams |-> <<>>] }
    \cup { [probe_ok |-> TRUE, streams |-> with_index(c)] :
             c \in UNION { [1..n -> choices] : n \in 0..MaxStreams } }

\* How the mapper counts audio streams for the predicate: all the audio streams
\* of the file, or those met so far in the pass.
Countings(p) ==
    IF p = "encoder_audio_custom" THEN {"total"} ELSE {"total", "running"}

Pending ==
    [returns |-> "pending", probed |-> "not_attempted", assigned |-> {},
     mapper |-> NoMapper]

Init ==
    /\ plugin \in {"encoder_audio_custom", "remove_stream_by_language"}
    /\ settings \in IF plugin = "encoder_audio_custom"
                    THEN EncoderSettings ELSE RemoveSettings
    /\ input \in
         [ file : Files(IF plugin = "encoder_audio_custom"
                        THEN EncoderStreams ELSE RemoveStreams),
           counting : Countings(plugin),
           add_file_to_pending_tasks : BOOLEAN,
           exec_command : { <<>>, << <<"s","t","a","l","e">> >> } ]
    /\ test_data = [add_file_to_pending_tasks |-> input.add_file_to_pending_tasks]
    /\ test_result = Pending
    /\ worker_data = [ exec_command |-> input.exec_command,
                       command_progress_parser |-> "None",
                       repeat |-> FALSE ]
    /\ worker_result = Pending

outcome(r) ==
    [returns |-> r.returns, probed |-> r.probed, assigned |-> r.assigned,
     mapper |-> r.mapper]

EncoderFileTest ==
    /\ plugin = "encoder_audio_custom"
    /\ test_result.returns = "pending"
    /\ LET r == Encoder_on_library_management_file_test(test_data, input.file, settings)
       IN  /\ test_data' = r.data
           /\ test_result' = outcome(r)
    /\ UNCHANGED <<plugin, settings, input, worker_data, worker_result>>

EncoderWorkerProcess ==
    /\ plugin = "encoder_audio_custom"
    /\ worker_result.returns = "pending"
    /\ LET r == Encoder_on_worker_process(worker_data, input.file, settings)
       IN  /\ worker_data' = r.data
           /\ worker_result' = outcome(r)
    /\ UNCHANGED <<plugin, settings, input, test_data, test_result>>

RemoveFileTest ==
    /\ plugin = "remove_stream_by_language"
    /\ test_result.returns = "pending"
    /\ LET r == Remove_on_library_management_file_test(test_data, input.file, settings,
                                                       input.counting)
       IN  /\ test_data' = r.data
           /\ test_result' = outcome(r)
    /\ UNCHANGED <<plugin, settings, input, worker_data, worker_result>>

RemoveWorkerProcess ==
    /\ plugin = "remove_stream_by_language"
    /\ worker_result.returns = "pending"
    /\ LET r == Remove_on_worker_process(worker_data, input.file, settings,
                                         input.counting)
       IN  /\ worker_data' = r.data
           /\ worker_result' = outcome(r)
    /\ UNCHANGED <<plugin, settings, input, test_data, test_result>>

Next ==
    \/ EncoderFileTest
    \/ EncoderWorkerProcess
    \/ RemoveFileTest
    \/ RemoveWorkerProcess

Spec == Init /\ [][Next]_vars

----------------------------------------------------------------------------
(* Properties *)

TestDone == test_result.returns # "pending"

WorkerDone == worker_result.returns # "pending"

\* The worker's mapper finished its pass over the streams.
WorkerEvaluated ==
    /\ worker_result.mapper.evaluated
    /\ ~worker_result.mapper.raised

Streams == input.file.streams

AudioPositions == {i \in 1..Len(Streams) : Streams[i].codec_type = "audio"}

\* C1: remove_stream_by_language never flags every audio stream of a file for
\* removal: once the mapper has tested every stream of a file that has an audio
\* stream, at least one audio stream is not flagged.  Stated for the mapper whose
\* audio_stream_count is its running counter, where the language guard keeps
\* the first audio streams and only the title branch can flag them all.
C1_LastAudioStreamKept ==
    ( /\ plugin = "remove_stream_by_language"
      /\ input.counting = "running"
      /\ WorkerEvaluated
      /\ AudioPositions # {} )
    => \E i \in AudioPositions : worker_result.mapper.verdicts[i] # "process"

\* The worker's mapper verdict: the probe succeeded and some stream needs processing.
WorkerVerdict ==
    /\ worker_result.probed = "ok"
    /\ worker_result.mapper.evaluated
    /\ worker_result.mapper.needs_processing

\* C2: in both plugins on_worker_process returns a non-empty exec_command exactly
\* when the probe succeeded and the mapper's verdict is true; the command is then
\* 'ffmpeg' followed by the mapper's arguments, and command_progress_parser is
\* set in that case and in no other.
C2_CommandOnlyWhenNeeded ==
    worker_result.returns = "data"
    => /\ (worker_data.exec_command # <<>>) <=> WorkerVerdict
       /\ WorkerVerdict
          => worker_data.exec_command
               = <<S_ffmpeg>> \o get_ffmpeg_args(worker_result.mapper)
       /\ ("command_progress_parser" \in worker_result.assigned) <=> WorkerVerdict
       /\ (worker_data.command_progress_parser # "None") <=> WorkerVerdict

\* C2 witness: the worker returned on a probed file with nothing to process, and
\* the command the host had passed in is gone.
C2_Witness ==
    /\ worker_result.returns = "data"
    /\ worker_result.probed = "ok"
    /\ ~WorkerVerdict
    /\ input.exec_command # <<>>
    /\ worker_data.exec_command = <<>>

\* C3: encoder_audio_custom keeps (does not process) an audio stream exactly when
\* its codec_name equals the configured if_not_found, compared without regard to
\* letter case on either side.
C3_CodecMatchIgnoresCase ==
    ( /\ plugin = "encoder_audio_custom"
      /\ WorkerEvaluated )
    => \A i \in AudioPositions :
          (worker_result.mapper.verdicts[i] = "keep")
          <=> (lower(Streams[i].codec_name) = lower(settings.if_not_found))

\* The bitrate argument of a fragment: the value of '-b:a:k'.
emitted_bitrate(f) == f.stream_encoding[4]

bitrate_configured(cfg) == truthy(cfg.bitrate) /\ int_of(cfg.bitrate) # 0

language_tag_matches(stream_info, language_list) ==
    /\ "tags" \in DOMAIN stream_info
    /\ \E k \in DOMAIN stream_info.tags :
          /\ lower(k) = S_language
          /\ LET languages == split(language_list, ",")
             IN  \E j \in 1..Len(languages) :
                    /\ strip(languages[j]) # <<>>
                    /\ contains(lower(strip(languages[j])), lower(stream_info.tags[k]))

\* C5: in remove_stream_by_language the only audio stream of a file is kept when
\* its language tag matches a configured audio language.
C5_OnlyAudioStreamKept ==
    ( /\ plugin = "remove_stream_by_language"
      /\ WorkerEvaluated
      /\ Cardinality(AudioPositions) = 1 )
    => \A i \in AudioPositions :
          language_tag_matches(Streams[i], settings.languages_audio)
          => worker_result.mapper.verdicts[i] = "keep"

\* C6: in both plugins a failed probe excludes the file and the hook returns
\* normally: the file test returns the data record with add_file_to_pending_tasks
\* as it was, the worker returns with an empty exec_command and no progress
\* parser, and no stream mapper is evaluated.
C6_ProbeFailureSkipsFile ==
    /\ ( /\ TestDone
         /\ ~input.file.probe_ok
         /\ test_result.probed # "not_attempted" )
       => /\ test_result.returns = "data"
          /\ test_data.add_file_to_pending_tasks = input.add_file_to_pending_tasks
          /\ test_result.assigned = {}
          /\ ~test_result.mapper.evaluated
    /\ ( /\ WorkerDone
         /\ ~input.file.probe_ok )
       => /\ worker_result.returns = "data"
          /\ worker_data.exec_command = <<>>
          /\ worker_data.command_progress_parser = "None"
          /\ "command_progress_parser" \notin worker_result.assigned
          /\ ~worker_result.mapper.evaluated

\* C6 witness: both hooks ran on a file the probe rejected; the file was marked
\* for the queue before the test and a command was passed to the worker.
C6_Witness ==
    /\ TestDone
    /\ WorkerDone
    /\ ~input.file.probe_ok
    /\ test_result.probed = "failed"
    /\ worker_result.probed = "failed"
    /\ input.add_file_to_pending_tasks
    /\ test_data.add_file_to_pending_tasks
    /\ input.exec_command # <<>>
    /\ worker_data.exec_command = <<>>

\* C7: in encoder_audio_custom a bitrate setting that is not a valid integer
\* makes on_worker_process skip the file: the hook returns, with no command to
\* run, and the error does not leave the hook.
C7_InvalidBitrateSkipsFile ==
    ( /\ plugin = "encoder_audio_custom"
      /\ WorkerDone
      /\ truthy(settings.bitrate)
      /\ ~int_ok(settings.bitrate) )
    => /\ worker_result.returns = "data"
       /\ worker_data.exec_command = <<>>

\* The tags of a stream with every key in lower case.
tags_by_lowered_key(stream_info) ==
    {<<lower(k), stream_info.tags[k]>> : k \in DOMAIN stream_info.tags}

\* Two streams that differ only in the letter case of their tag keys.
differ_in_key_case_only(a, b) ==
    /\ a.codec_type = b.codec_type
    /\ "tags" \in DOMAIN a
    /\ "tags" \in DOMAIN b
    /\ Cardinality(DOMAIN a.tags) = Cardinality(DOMAIN b.tags)
    /\ tags_by_lowered_key(a) = tags_by_lowered_key(b)

\* C8: in remove_stream_by_language two streams that differ only in the letter
\* case of their tag keys get the same verdict from test_stream_needs_processing,
\* whatever the settings and the audio stream count.
C8_TagKeysIgnoreCase ==
    ( /\ plugin = "remove_stream_by_language"
      /\ WorkerEvaluated )
    => \A i, j \in 1..Len(Streams) :
          differ_in_key_case_only(Streams[i], Streams[j])
          => \A n \in 0..MaxStreams :
                Remove_test_stream_needs_processing(Streams[i], n, settings)
                = Remove_test_stream_needs_processing(Streams[j], n, settings)

\* The number of audio streams before position i: the per-type index of stream i.
audio_index(i) == Cardinality({h \in AudioPositions : h < i})

\* C9: in encoder_audio_custom the fragment of a processed audio stream with
\* per-type index k maps audio stream k and sets, in this order, codec, bitrate,
\* channel count and channel-layout filter of audio stream k, followed by the
\* extra arguments only in advanced mode.  For one aac stream with two channels,
\* acceptable codec opus, target libopus and bitrate 0: -map 0:a:0 and
\* -c:a:0 libopus -b:a:0 128k -ac:a:0 2 -af:a:0 <layout filter>.
C9_EncodeFragment ==
    ( /\ plugin = "encoder_audio_custom"
      /\ WorkerEvaluated )
    => /\ \A j \in 1..Len(worker_result.mapper.fragments) :
            LET f == worker_result.mapper.fragments[j]
                s == Streams[f.position]
                k == int_to_str(audio_index(f.position))
                e == f.stream_encoding
            IN  /\ f.stream_id = audio_index(f.position)
                /\ f.stream_mapping = << <<"-","m","a","p">>, <<"0",":","a",":">> \o k >>
                /\ Len(e) >= 8
                /\ e[1] = <<"-","c",":","a",":">> \o k
                /\ e[2] = settings.use_codec_lib
                /\ e[3] = <<"-","b",":","a",":">> \o k
                /\ e[4] # <<>> /\ e[4][Len(e[4])] = "k"
                /\ e[5] = <<"-","a","c",":","a",":">> \o k
                /\ e[6] = (IF "channels" \in DOMAIN s
                           THEN int_to_str(s.channels) ELSE <<"0">>)
                /\ e[7] = <<"-","a","f",":","a",":">> \o k
                /\ e[8] = S_aformat
                /\ SubSeq(e, 9, Len(e)) =
                     (IF settings.advanced /\ settings.custom_options = <<"-","x"," "," ","y">>
                      THEN << <<"-","x">>, <<"y">> >> ELSE <<>>)
       /\ ( /\ Len(Streams) = 1
            /\ Streams[1].codec_type = "audio"
            /\ Streams[1].codec_name = <<"a","a","c">>
            /\ "channels" \in DOMAIN Streams[1]
            /\ Streams[1].channels = 2
            /\ settings.if_not_found = <<"o","p","u","s">>
            /\ settings.use_codec_lib = <<"l","i","b","o","p","u","s">>
            /\ settings.bitrate = PyInt(0)
            /\ ~settings.advanced )
          => /\ worker_result.mapper.stream_mapping
                  = << <<"-","m","a","p">>, <<"0",":","a",":","0">> >>
             /\ worker_result.mapper.stream_encoding
                  = << <<"-","c",":","a",":","0">>, <<"l","i","b","o","p","u","s">>,
                       <<"-","b",":","a",":","0">>, <<"1","2","8","k">>,
                       <<"-","a","c",":","a",":","0">>, <<"2">>,
                       <<"-","a","f",":","a",":","0">>, S_aformat >>

\* C9 witness: the worker processed the aac stereo stream of the example.
C9_Witness ==
    /\ plugin = "encoder_audio_custom"
    /\ WorkerEvaluated
    /\ Len(Streams) = 1
    /\ Streams[1].codec_name = <<"a","a","c">>
    /\ "channels" \in DOMAIN Streams[1]
    /\ Streams[1].channels = 2
    /\ settings.if_not_found = <<"o","p","u","s">>
    /\ settings.bitrate = PyInt(0)
    /\ ~settings.advanced
    /\ Len(worker_result.mapper.fragments) = 1
    /\ worker_data.exec_command # <<>>

\* C10: for a probed file and the same settings the two hooks agree: when both
\* return, the file test has set add_file_to_pending_tasks to true exactly when
\* the worker returned a non-empty exec_command.
C10_HooksAgree ==
    ( /\ TestDone
      /\ test_result.returns # "raised"
      /\ worker_result.returns = "data"
      /\ input.file.probe_ok )
    => ( ("add_file_to_pending_tasks" \in test_result.assigned)
         <=> (worker_data.exec_command # <<>>) )

====
